---------------------------- MODULE Spec2Model ----------------------------
(***************************************************************************)
(* Model of the migration aggregator (src/main.py, src/queries.py): the    *)
(* driver loop of main() replays parsed DDL statements through             *)
(* Schema.execute into one Repository per object kind and collects the     *)
(* statements it cannot model.                                             *)
(*                                                                         *)
(* Conventions.                                                            *)
(*  - Identifiers are strings; "_".join is string concatenation.           *)
(*  - A Python str attribute that is None (schemaname, conname) is the     *)
(*    empty string: no SQL identifier is empty.                            *)
(*  - A Python "tuple | None" attribute (tableElts, coldeflist,            *)
(*    constraints) is None or Tuple(<<...>>).                              *)
(*  - Tuple indices are 1-based here and 0-based in the source.            *)
(*  - An operation that may raise returns a record with a field raised:    *)
(*    NoError, or the name of the exception class.                         *)
(*  - executed and before are history variables: the statements run so     *)
(*    far, and the state the last of them found.                           *)
(*  - files is the directory main reads; it is empty in the specifications *)
(*    that draw the statements of raw_statements one at a time.            *)
(***************************************************************************)
EXTENDS Integers, Sequences, FiniteSets, TLC

VARIABLES
    repositories,   \* Schema.repositories: object kind -> Repository.rows
    skipped,        \* main: the statements captured as unsupported
    executed,       \* main: the prefix of raw_statements already executed
    before,         \* repositories and skipped as the last statement found them
    status,         \* main: "reading", "running", "finished", "emitted", "aborted"
    error,          \* the exception that aborted the run, or NoError
    files,          \* os.walk: the directories and, in each, its files as listed
    output          \* the files main writes into output_dir

vars == <<repositories, skipped, executed, before, status, error, files, output>>

NoError == ""
NoneStr == ""

-----------------------------------------------------------------------------
(* tuple | None                                                            *)

None == [none |-> TRUE]

Tuple(items) == [items |-> items]

or_tuple(container) == IF container = None THEN <<>> ELSE container.items

ItemSet(container) == {or_tuple(container)[i] : i \in DOMAIN or_tuple(container)}

-----------------------------------------------------------------------------
(* main.py helpers                                                         *)

\* Mutant: the value is put in front.
appended_Front(container, value) == Tuple(<<value>> \o or_tuple(container))

appended(container, value) == Tuple(or_tuple(container) \o <<value>>)

removed(container, index) ==
    Tuple(SubSeq(container.items, 1, index - 1)
          \o SubSeq(container.items, index + 1, Len(container.items)))

\* find_by: the index of the first item pred accepts, 0 for (None, None).
\* pred is a function from the container's items to BOOLEAN.
find_by(container, pred) ==
    LET items == or_tuple(container)
        hits == {i \in DOMAIN items : pred[items[i]]}
    IN  IF hits = {} THEN 0 ELSE CHOOSE i \in hits : \A j \in hits : i <= j

\* Mutant: every item pred accepts is removed.
removed_by_All(container, is_missing_ok, pred) ==
    LET items == or_tuple(container)
        Rejected(item) == ~pred[item]
    IN  IF find_by(container, pred) # 0
        THEN [value |-> Tuple(SelectSeq(items, Rejected)), raised |-> NoError]
        ELSE IF ~is_missing_ok THEN [value |-> container, raised |-> "ValueError"]
        ELSE [value |-> Tuple(items), raised |-> NoError]

removed_by(container, is_missing_ok, pred) ==
    LET items == Tuple(or_tuple(container))
        index == find_by(items, pred)
    IN  IF index # 0 THEN [value |-> removed(items, index), raised |-> NoError]
        ELSE IF ~is_missing_ok THEN [value |-> container, raised |-> "ValueError"]
        ELSE [value |-> items, raised |-> NoError]

ConstraintSuffix(constraint_type) ==
    CASE constraint_type = "CONSTR_PRIMARY"   -> "pkey"
      [] constraint_type = "CONSTR_UNIQUE"    -> "key"
      [] constraint_type = "CONSTR_EXCLUSION" -> "excl"
      [] constraint_type = "CONSTR_IDENTITY"  -> "idx"
      [] constraint_type = "CONSTR_FOREIGN"   -> "fkey"
      [] constraint_type = "CONSTR_CHECK"     -> "check"
      [] OTHER                                -> "None"

constraint_name(relation_name, column_name, constraint_type) ==
    LET suffix == ConstraintSuffix(constraint_type)
    IN  IF suffix # ""
        THEN relation_name \o "_" \o column_name \o "_" \o suffix
        ELSE NoneStr

-----------------------------------------------------------------------------
(* queries.py: statement adapters                                          *)

range_var_to_tuple(range_var) == <<range_var.schemaname, range_var.relname>>

FAIL == [enum |-> "ConflictBehavior", member |-> "FAIL"]
IGNORE == [enum |-> "ConflictBehavior", member |-> "IGNORE"]
REPLACE == [enum |-> "ConflictBehavior", member |-> "REPLACE"]

\* Create.name() of each adapter.
name(statement) ==
    CASE statement.type = "CreateStmt" -> range_var_to_tuple(statement.relation)
      [] statement.type = "CompositeTypeStmt" -> range_var_to_tuple(statement.typevar)
      [] statement.type = "IndexStmt" ->
            <<statement.relation.schemaname, statement.idxname>>
      [] statement.type = "CreateFunctionStmt" -> statement.funcname
      [] statement.type = "CreateEnumStmt" -> statement.typeName
      [] statement.type = "CreateTrigStmt" ->
            <<statement.relation.schemaname, statement.trigname>>
      [] statement.type = "CreateSchemaStmt" -> <<statement.schemaname>>
      [] statement.type = "AlterTableStmt" -> range_var_to_tuple(statement.relation)

\* Create.conflict_behavior() of each adapter: the value the method returns
\* when it is called.
conflict_behavior(statement) ==
    CASE statement.type \in {"CreateStmt", "IndexStmt", "CreateSchemaStmt"} ->
            IF statement.if_not_exists THEN IGNORE ELSE FAIL
      [] statement.type \in {"CreateFunctionStmt", "CreateTrigStmt"} ->
            IF statement.replace THEN REPLACE ELSE FAIL
      [] statement.type \in {"CompositeTypeStmt", "CreateEnumStmt"} -> FAIL

\* Only CreateTable and CreateType define the children property.
HasChildren(statement) == statement.type \in {"CreateStmt", "CompositeTypeStmt"}

children(statement) ==
    IF statement.type = "CreateStmt" THEN statement.tableElts
    ELSE statement.coldeflist

set_children(statement, value) ==
    IF statement.type = "CreateStmt" THEN [statement EXCEPT !.tableElts = value]
    ELSE [statement EXCEPT !.coldeflist = value]

IsColumnDef(child) == child.node = "ColumnDef"

IsConstraint(child) == child.node = "Constraint"

\* Create.columns(): the ColumnDef children, in child order.
columns(statement) == SelectSeq(or_tuple(children(statement)), IsColumnDef)

\* Drop.names(): one qualified name per object reference; an object that is
\* neither a pair of strings, a TypeName nor an ObjectWithArgs raises TypeError.
DropObjectOk(object) == object.shape \in {"StringPair", "TypeName", "ObjectWithArgs"}

names(statement) ==
    IF \A i \in DOMAIN statement.objects : DropObjectOk(statement.objects[i])
    THEN [value |-> [i \in DOMAIN statement.objects |-> statement.objects[i].parts],
          raised |-> NoError]
    ELSE [value |-> <<>>, raised |-> "TypeError"]

-----------------------------------------------------------------------------
(* Repository.rows: a dict, kept as its items in insertion order            *)

Contains(rows, key) == \E i \in DOMAIN rows : rows[i].key = key

IndexOf(rows, key) == CHOOSE i \in DOMAIN rows : rows[i].key = key

GetItem(rows, key) == rows[IndexOf(rows, key)].value

\* rows[key] = value: an existing key keeps its place.
SetItem(rows, key, value) ==
    IF Contains(rows, key)
    THEN [rows EXCEPT ![IndexOf(rows, key)] = [key |-> key, value |-> value]]
    ELSE Append(rows, [key |-> key, value |-> value])

\* del rows[key]
DelItem(rows, key) ==
    IF Contains(rows, key)
    THEN [rows |-> SubSeq(rows, 1, IndexOf(rows, key) - 1)
                   \o SubSeq(rows, IndexOf(rows, key) + 1, Len(rows)),
          raised |-> NoError]
    ELSE [rows |-> rows, raised |-> "KeyError"]

Keys(rows) == {rows[i].key : i \in DOMAIN rows}

-----------------------------------------------------------------------------
(* Repository.create                                                       *)

\* statement.conflict_behavior without a call: the bound method itself.
BoundMethod(statement, attribute) == [method |-> attribute, self |-> statement]

\* Mutant: an existing name keeps its definition whatever the statement says.
create_KeepExisting(rows, statement) ==
    IF Contains(rows, name(statement))
    THEN [rows |-> rows, raised |-> NoError]
    ELSE [rows |-> SetItem(rows, name(statement), statement), raised |-> NoError]

create(rows, statement) ==
    LET subject == BoundMethod(statement, "conflict_behavior")
    IN  IF Contains(rows, name(statement)) /\ subject = FAIL
        THEN [rows |-> rows, raised |-> "ValueError"]
        ELSE IF Contains(rows, name(statement)) /\ subject = IGNORE
        THEN [rows |-> rows, raised |-> NoError]
        ELSE [rows |-> SetItem(rows, name(statement), statement),
              raised |-> NoError]

-----------------------------------------------------------------------------
(* Repository.drop                                                         *)

RECURSIVE DropLoop(_, _, _, _)
DropLoop(rows, nms, missing_ok, i) ==
    IF i > Len(nms) THEN [rows |-> rows, raised |-> NoError]
    ELSE IF Contains(rows, nms[i]) \/ ~missing_ok
    THEN LET deleted == DelItem(rows, nms[i])
         IN  IF deleted.raised # NoError THEN deleted
             ELSE DropLoop(deleted.rows, nms, missing_ok, i + 1)
    ELSE DropLoop(rows, nms, missing_ok, i + 1)

\* Mutant: a DROP that raises leaves the rows as it found them.
drop_Atomic(rows, nms, missing_ok) ==
    IF DropLoop(rows, nms, missing_ok, 1).raised # NoError
    THEN [rows |-> rows, raised |-> DropLoop(rows, nms, missing_ok, 1).raised]
    ELSE DropLoop(rows, nms, missing_ok, 1)

\* Mutant: an absent name is skipped whatever missing_ok says.
drop_SkipAbsent(rows, nms, missing_ok) == DropLoop(rows, nms, TRUE, 1)

drop(rows, nms, missing_ok) == DropLoop(rows, nms, missing_ok, 1)

-----------------------------------------------------------------------------
(* Repository.alter                                                        *)

RecognizedSubtypes ==
    {"AT_AddColumn", "AT_DropColumn", "AT_AddConstraint", "AT_DropConstraint",
     "AT_SetNotNull", "AT_DropNotNull", "AT_ColumnDefault"}

\* find_column_by_name: the place among the children of the first column
\* called column_name, 0 for None.
find_column_by_name(this, column_name) ==
    find_by(children(this),
            [x \in ItemSet(children(this)) |->
                IsColumnDef(x) /\ x.colname = column_name])

\* column.constraints = value, on the column that is child number index.
SetColumnConstraints(this, index, value) ==
    set_children(this,
        Tuple([or_tuple(children(this)) EXCEPT ![index].constraints = value]))

add_column_constraint(this, index, constraint) ==
    SetColumnConstraints(this, index,
        appended(or_tuple(children(this))[index].constraints, constraint))

NewConstraint(contype, raw_expr) ==
    [node |-> "Constraint", conname |-> NoneStr, contype |-> contype,
     raw_expr |-> raw_expr]

\* The place in column.constraints of the first inline constraint whose
\* derived name is target, 0 for None.
InlineMatch(relname, column, target) ==
    find_by(column.constraints,
            [x \in ItemSet(column.constraints) |->
                constraint_name(relname, column.colname, x.contype) = target])

AddChild(st, command) ==
    [st EXCEPT !.this = set_children(st.this,
                            appended(children(st.this), command.def_))]

DropColumn(st, command) ==
    LET kept == removed_by(children(st.this), command.missing_ok,
                    [x \in ItemSet(children(st.this)) |->
                        IsColumnDef(x) /\ x.colname = command.name])
    IN  IF kept.raised # NoError THEN [st EXCEPT !.raised = kept.raised]
        ELSE [st EXCEPT !.this = set_children(st.this, kept.value)]

\* Mutant: the inline constraints are searched before the top-level ones.
DropConstraint_InlineFirst(st, relname, command) ==
    LET kids == children(st.this)
        index == find_by(kids, [x \in ItemSet(kids) |->
                            IsConstraint(x) /\ x.conname = command.name])
        items == or_tuple(kids)
        hits == {i \in DOMAIN items :
                    /\ IsColumnDef(items[i])
                    /\ InlineMatch(relname, items[i], command.name) # 0}
        first == CHOOSE i \in hits : \A j \in hits : i <= j
    IN  IF kids = None THEN [st EXCEPT !.raised = "TypeError"]
        ELSE IF hits # {}
        THEN [st EXCEPT !.this =
                SetColumnConstraints(st.this, first,
                    removed(items[first].constraints,
                            InlineMatch(relname, items[first], command.name)))]
        ELSE IF index # 0
        THEN [st EXCEPT !.this = set_children(st.this, removed(kids, index))]
        ELSE IF ~command.missing_ok THEN [st EXCEPT !.raised = "ValueError"]
        ELSE st

DropConstraint(st, relname, command) ==
    LET kids == children(st.this)
        index == find_by(kids, [x \in ItemSet(kids) |->
                            IsConstraint(x) /\ x.conname = command.name])
        items == or_tuple(kids)
        hits == {i \in DOMAIN items :
                    /\ IsColumnDef(items[i])
                    /\ InlineMatch(relname, items[i], command.name) # 0}
        first == CHOOSE i \in hits : \A j \in hits : i <= j
    IN  IF index # 0
        THEN [st EXCEPT !.this = set_children(st.this, removed(kids, index))]
        ELSE IF kids = None THEN [st EXCEPT !.raised = "TypeError"]
        ELSE IF hits # {}
        THEN [st EXCEPT !.this =
                SetColumnConstraints(st.this, first,
                    removed(items[first].constraints,
                            InlineMatch(relname, items[first], command.name)))]
        ELSE IF ~command.missing_ok THEN [st EXCEPT !.raised = "ValueError"]
        ELSE st

AddColumnConstraint(st, command, constraint) ==
    LET index == find_column_by_name(st.this, command.name)
    IN  IF children(st.this) = None THEN [st EXCEPT !.raised = "TypeError"]
        ELSE IF index = 0 THEN [st EXCEPT !.raised = "AttributeError"]
        ELSE [st EXCEPT !.this = add_column_constraint(st.this, index, constraint)]

DropNotNull(st, command) ==
    LET index == find_column_by_name(st.this, command.name)
        column == or_tuple(children(st.this))[index]
        kept == removed_by(column.constraints, command.missing_ok,
                    [x \in ItemSet(column.constraints) |->
                        x.contype = "CONSTR_NOTNULL"])
    IN  IF children(st.this) = None THEN [st EXCEPT !.raised = "TypeError"]
        ELSE IF index = 0 THEN [st EXCEPT !.raised = "AttributeError"]
        ELSE IF kept.raised # NoError THEN [st EXCEPT !.raised = kept.raised]
        ELSE [st EXCEPT !.this = SetColumnConstraints(st.this, index, kept.value)]

\* One turn of the loop over statement.statement.cmds.
AlterCommand(st, relname, command) ==
    IF command.subtype \notin RecognizedSubtypes
    THEN [st EXCEPT !.unsupported = Append(st.unsupported, command)]
    ELSE IF ~HasChildren(st.this) THEN [st EXCEPT !.raised = "AttributeError"]
    ELSE CASE command.subtype \in {"AT_AddColumn", "AT_AddConstraint"} ->
                AddChild(st, command)
           [] command.subtype = "AT_DropColumn" -> DropColumn(st, command)
           [] command.subtype = "AT_DropConstraint" ->
                DropConstraint(st, relname, command)
           [] command.subtype = "AT_SetNotNull" ->
                AddColumnConstraint(st, command,
                    NewConstraint("CONSTR_NOTNULL", NoneStr))
           [] command.subtype = "AT_DropNotNull" -> DropNotNull(st, command)
           [] command.subtype = "AT_ColumnDefault" ->
                AddColumnConstraint(st, command,
                    NewConstraint("CONSTR_DEFAULT", command.def_))

\* Mutant: the loop ends at the first unrecognized sub-command.
RECURSIVE AlterLoop_StopAtUnrecognized(_, _, _, _)
AlterLoop_StopAtUnrecognized(st, relname, cmds, i) ==
    IF i > Len(cmds) \/ st.raised # NoError \/ st.unsupported # <<>> THEN st
    ELSE AlterLoop_StopAtUnrecognized(AlterCommand(st, relname, cmds[i]),
                                      relname, cmds, i + 1)

RECURSIVE AlterLoop(_, _, _, _)
AlterLoop(st, relname, cmds, i) ==
    IF i > Len(cmds) \/ st.raised # NoError THEN st
    ELSE AlterLoop(AlterCommand(st, relname, cmds[i]), relname, cmds, i + 1)

\* The definition is changed in place, so what the commands did before an
\* exception stays in rows.
alter(rows, statement) ==
    IF ~Contains(rows, name(statement))
    THEN [rows |-> rows, raised |-> "KeyError", payload |-> statement]
    ELSE LET st == AlterLoop([this |-> GetItem(rows, name(statement)),
                              unsupported |-> <<>>, raised |-> NoError],
                             statement.relation.relname, statement.cmds, 1)
             changed == SetItem(rows, name(statement), st.this)
         IN  IF st.raised # NoError
             THEN [rows |-> changed, raised |-> st.raised, payload |-> statement]
             ELSE IF st.unsupported # <<>>
             THEN [rows |-> changed, raised |-> "UnsupportedStatementError",
                   payload |-> [statement EXCEPT !.cmds = st.unsupported]]
             ELSE [rows |-> changed, raised |-> NoError, payload |-> statement]

-----------------------------------------------------------------------------
(* Schema                                                                  *)

\* Schema.__init__: the kinds that have a repository.
RepositoryKinds ==
    {"ENUM", "FUNCTION", "INDEX", "SCHEMA", "TABLE", "TRIGGER", "TYPE"}

\* Mutant: OBJECT_TYPE is resolved to the Enum kind.
from_object_type_TypeIsEnum(object_type) ==
    CASE object_type = "OBJECT_FUNCTION" -> "FUNCTION"
      [] object_type = "OBJECT_INDEX"    -> "INDEX"
      [] object_type = "OBJECT_SCHEMA"   -> "SCHEMA"
      [] object_type = "OBJECT_TABLE"    -> "TABLE"
      [] object_type = "OBJECT_TRIGGER"  -> "TRIGGER"
      [] object_type = "OBJECT_TYPE"     -> "ENUM"
      [] OTHER                           -> "UNKNOWN"

\* Mutant: a kind the mapping lacks is taken for a table.
from_object_type_UnknownIsTable(object_type) ==
    CASE object_type = "OBJECT_FUNCTION" -> "FUNCTION"
      [] object_type = "OBJECT_INDEX"    -> "INDEX"
      [] object_type = "OBJECT_SCHEMA"   -> "SCHEMA"
      [] object_type = "OBJECT_TRIGGER"  -> "TRIGGER"
      [] object_type = "OBJECT_TYPE"     -> "TYPE"
      [] OTHER                           -> "TABLE"

from_object_type(object_type) ==
    CASE object_type = "OBJECT_FUNCTION" -> "FUNCTION"
      [] object_type = "OBJECT_INDEX"    -> "INDEX"
      [] object_type = "OBJECT_SCHEMA"   -> "SCHEMA"
      [] object_type = "OBJECT_TABLE"    -> "TABLE"
      [] object_type = "OBJECT_TRIGGER"  -> "TRIGGER"
      [] object_type = "OBJECT_TYPE"     -> "TYPE"
      [] OTHER                           -> "UNKNOWN"

CreateStatementTypes ==
    {"CreateStmt", "CreateSchemaStmt", "CreateFunctionStmt", "CreateTrigStmt",
     "CreateEnumStmt", "CompositeTypeStmt", "IndexStmt"}

\* The repository Schema.execute hands a CREATE-family statement to.
CreateKind(statement) ==
    CASE statement.type = "CreateStmt"         -> "TABLE"
      [] statement.type = "CreateSchemaStmt"   -> "SCHEMA"
      [] statement.type = "CreateFunctionStmt" -> "FUNCTION"
      [] statement.type = "CreateTrigStmt"     -> "TRIGGER"
      [] statement.type = "CreateEnumStmt"     -> "ENUM"
      [] statement.type = "CompositeTypeStmt"  -> "TYPE"
      [] statement.type = "IndexStmt"          -> "INDEX"

ExecuteCreate(repos, statement) ==
    LET kind == CreateKind(statement)
        done == create(repos[kind], statement)
    IN  [repositories |-> [repos EXCEPT ![kind] = done.rows],
         raised |-> done.raised, payload |-> statement]

\* Mutant: an ALTER of a name the repository lacks is passed over.
ExecuteAlter_SkipAbsent(repos, statement) ==
    LET kind == from_object_type(statement.objtype)
        done == alter(repos[kind], statement)
    IN  IF kind \notin RepositoryKinds
        THEN [repositories |-> repos, raised |-> "KeyError", payload |-> statement]
        ELSE IF ~Contains(repos[kind], name(statement))
        THEN [repositories |-> repos, raised |-> NoError, payload |-> statement]
        ELSE [repositories |-> [repos EXCEPT ![kind] = done.rows],
              raised |-> done.raised, payload |-> done.payload]

ExecuteAlter(repos, statement) ==
    LET kind == from_object_type(statement.objtype)
        done == alter(repos[kind], statement)
    IN  IF kind \notin RepositoryKinds
        THEN [repositories |-> repos, raised |-> "KeyError", payload |-> statement]
        ELSE [repositories |-> [repos EXCEPT ![kind] = done.rows],
              raised |-> done.raised, payload |-> done.payload]

\* Mutant: the names are also removed from the repositories of the other kinds.
ExecuteDrop_EveryKind(repos, statement) ==
    LET kind == from_object_type(statement.removeType)
        nms == names(statement)
        done == drop(repos[kind], nms.value, statement.missing_ok)
    IN  IF kind \notin RepositoryKinds
        THEN [repositories |-> repos, raised |-> "KeyError", payload |-> statement]
        ELSE IF nms.raised # NoError
        THEN [repositories |-> repos, raised |-> nms.raised, payload |-> statement]
        ELSE [repositories |->
                [other \in RepositoryKinds |->
                    IF other = kind THEN done.rows
                    ELSE drop(repos[other], nms.value, TRUE).rows],
              raised |-> done.raised, payload |-> statement]

ExecuteDrop(repos, statement) ==
    LET kind == from_object_type(statement.removeType)
        nms == names(statement)
        done == drop(repos[kind], nms.value, statement.missing_ok)
    IN  IF kind \notin RepositoryKinds
        THEN [repositories |-> repos, raised |-> "KeyError", payload |-> statement]
        ELSE IF nms.raised # NoError
        THEN [repositories |-> repos, raised |-> nms.raised, payload |-> statement]
        ELSE [repositories |-> [repos EXCEPT ![kind] = done.rows],
              raised |-> done.raised, payload |-> statement]

\* Mutant: DELETE has no case of its own and falls to the last one.
execute_DeleteUnsupported(repos, statement) ==
    CASE statement.type \in CreateStatementTypes -> ExecuteCreate(repos, statement)
      [] statement.type = "AlterTableStmt" -> ExecuteAlter(repos, statement)
      [] statement.type = "DropStmt" -> ExecuteDrop(repos, statement)
      [] statement.type = "UpdateStmt" ->
            [repositories |-> repos, raised |-> NoError, payload |-> statement]
      [] OTHER ->
            [repositories |-> repos, raised |-> "UnsupportedStatementError",
             payload |-> statement]

\* Schema.execute
execute(repos, statement) ==
    CASE statement.type \in CreateStatementTypes -> ExecuteCreate(repos, statement)
      [] statement.type = "AlterTableStmt" -> ExecuteAlter(repos, statement)
      [] statement.type = "DropStmt" -> ExecuteDrop(repos, statement)
      [] statement.type \in {"DeleteStmt", "UpdateStmt"} ->
            [repositories |-> repos, raised |-> NoError, payload |-> statement]
      [] OTHER ->
            [repositories |-> repos, raised |-> "UnsupportedStatementError",
             payload |-> statement]

-----------------------------------------------------------------------------
(* main: the loop over raw_statements                                      *)

\* output_dir before main writes into it.
NothingWritten == [final_schema |-> <<>>, unsupported |-> <<>>]

Init ==
    /\ repositories = [kind \in RepositoryKinds |-> <<>>]
    /\ skipped = <<>>
    /\ executed = <<>>
    /\ before = [repositories |-> [kind \in RepositoryKinds |-> <<>>],
                 skipped |-> <<>>]
    /\ status = "running"
    /\ error = NoError
    /\ files = <<>>
    /\ output = NothingWritten

\* Mutant: the except clause catches nothing.
Caught_Nothing(raised) == FALSE

\* except UnsupportedStatementError
Caught(raised) == raised = "UnsupportedStatementError"

\* One turn of the loop: execute raw.stmt, capture an UnsupportedStatementError,
\* let any other exception end the program.
MainLoopStep(raw) ==
    \E done \in {execute(repositories, raw)} :
        /\ status = "running"
        /\ repositories' = done.repositories
        /\ before' = [repositories |-> repositories, skipped |-> skipped]
        /\ executed' = Append(executed, raw)
        /\ skipped' = IF Caught(done.raised)
                      THEN Append(skipped, done.payload)
                      ELSE skipped
        /\ status' = IF done.raised = NoError \/ Caught(done.raised)
                     THEN "running"
                     ELSE "aborted"
        /\ error' = IF done.raised = NoError \/ Caught(done.raised)
                    THEN NoError
                    ELSE done.raised
        /\ UNCHANGED <<files, output>>

\* raw_statements is exhausted: the loop ends.
MainLoopEnd ==
    /\ status = "running"
    /\ status' = "finished"
    /\ UNCHANGED <<repositories, skipped, executed, before, error, files, output>>

OBJECT_TYPES == <<"FUNCTION", "INDEX", "SCHEMA", "TABLE", "TRIGGER", "TYPE">>

\* arguments.types when the command line has no -t: the default.
arguments_types == OBJECT_TYPES

\* repo.rows.values(): the definitions in insertion order.
Values(rows) == [i \in DOMAIN rows |-> rows[i].value]

\* The end of main: one final_schema file for each of arguments.types with the
\* definitions of that kind's repository, and unsupported.sql with skipped.
Emit ==
    /\ status = "finished"
    /\ status' = "emitted"
    /\ output' =
        [final_schema |->
            [object_type \in {arguments_types[i] : i \in DOMAIN arguments_types}
                |-> Values(repositories[object_type])],
         unsupported |-> skipped]
    /\ UNCHANGED <<repositories, skipped, executed, before, error, files>>

-----------------------------------------------------------------------------
(* The statements the parser hands to main                                 *)

RangeVar(schemaname, relname) == [schemaname |-> schemaname, relname |-> relname]

ColumnDef(colname, constraints) ==
    [node |-> "ColumnDef", colname |-> colname, constraints |-> constraints]

Constraint(conname, contype) ==
    [node |-> "Constraint", conname |-> conname, contype |-> contype,
     raw_expr |-> NoneStr]

CreateStmt(relation, tableElts, if_not_exists) ==
    [type |-> "CreateStmt", relation |-> relation, tableElts |-> tableElts,
     if_not_exists |-> if_not_exists]

AlterTableCmd(subtype, cmdname, def_, missing_ok) ==
    [subtype |-> subtype, name |-> cmdname, def_ |-> def_, missing_ok |-> missing_ok]

AlterTableStmt(relation, objtype, cmds) ==
    [type |-> "AlterTableStmt", relation |-> relation, objtype |-> objtype,
     cmds |-> cmds]

\* A table named schema.rel in a DROP: a pair of String nodes.
StringPair(schemaname, relname) ==
    [shape |-> "StringPair", parts |-> <<schemaname, relname>>]

DropStmt(removeType, objects, missing_ok) ==
    [type |-> "DropStmt", removeType |-> removeType, objects |-> objects,
     missing_ok |-> missing_ok]

OtherStmt(type) == [type |-> type]

ColA == ColumnDef("a", None)
ColB == ColumnDef("b", None)
ColC == ColumnDef("c", None)

AddColumn(def_) == AlterTableCmd("AT_AddColumn", NoneStr, def_, FALSE)
Unrecognized1 == AlterTableCmd("AT_SetStatistics", "a", NoneStr, FALSE)
Unrecognized2 == AlterTableCmd("AT_EnableTrig", "trg", NoneStr, FALSE)

MaxStmts == 3

\* The table life cycle: CREATE, ALTER and DROP of s.t, ALTER and DROP of the
\* table s.u that is never created, and statements that are no DDL.
CreateStatements ==
    {CreateStmt(RangeVar("s", "t"), elts, ine) :
        elts \in {Tuple(<<ColA>>), Tuple(<<ColA, ColB>>)}, ine \in BOOLEAN}

AlterStatements ==
    {AlterTableStmt(RangeVar("s", "t"), "OBJECT_TABLE", cmds) :
        cmds \in {<<AddColumn(ColC)>>, <<Unrecognized1, AddColumn(ColC)>>,
                  <<Unrecognized2, Unrecognized1>>}}
    \cup {AlterTableStmt(RangeVar("s", "u"), "OBJECT_TABLE", cmds) :
        cmds \in {<<AddColumn(ColC)>>, <<Unrecognized1>>}}

DropStatements ==
    {DropStmt("OBJECT_TABLE", objects, missing_ok) :
        objects \in {<<StringPair("s", "t")>>, <<StringPair("s", "u")>>,
                     <<StringPair("s", "t"), StringPair("s", "u")>>,
                     <<StringPair("s", "t"), StringPair("s", "t")>>},
        missing_ok \in BOOLEAN}

OtherStatements == {OtherStmt("UpdateStmt"), OtherStmt("InsertStmt")}

Next ==
    \/ \E raw \in CreateStatements : Len(executed) < MaxStmts /\ MainLoopStep(raw)
    \/ \E raw \in AlterStatements : Len(executed) < MaxStmts /\ MainLoopStep(raw)
    \/ \E raw \in DropStatements : Len(executed) < MaxStmts /\ MainLoopStep(raw)
    \/ \E raw \in OtherStatements : Len(executed) < MaxStmts /\ MainLoopStep(raw)
    \/ MainLoopEnd

Spec == Init /\ [][Next]_vars

-----------------------------------------------------------------------------
(* What the last statement was and what it found                           *)

Ran == Len(executed) > 0

Last == executed[Len(executed)]

IsCreate(statement) == statement.type \in CreateStatementTypes

IsAlter(statement) == statement.type = "AlterTableStmt"

IsDrop(statement) == statement.type = "DropStmt"

\* The rows the last statement found in the repository of kind.
RowsBefore(kind) == before.repositories[kind]

IsRecognized(command) == command.subtype \in RecognizedSubtypes

IsUnrecognized(command) == command.subtype \notin RecognizedSubtypes

-----------------------------------------------------------------------------
(* C1: a CREATE whose conflict behavior is Fail, executed when its name is  *)
(* already in the repository of its kind, raises an error (the ValueError  *)
(* of Repository.create) and so ends the run.                              *)
C1_FailCreateOnExistingRaises ==
    (/\ Ran
     /\ IsCreate(Last)
     /\ conflict_behavior(Last) = FAIL
     /\ Contains(RowsBefore(CreateKind(Last)), name(Last)))
    => (status = "aborted" /\ error = "ValueError")

(* C2: a CREATE whose conflict behavior is Ignore, executed when its name   *)
(* is already in the repository, changes nothing: every repository is as   *)
(* the statement found it, and the run goes on.                            *)
C2_IgnoreCreateOnExistingIsNoOp ==
    (/\ Ran
     /\ IsCreate(Last)
     /\ conflict_behavior(Last) = IGNORE
     /\ Contains(RowsBefore(CreateKind(Last)), name(Last)))
    => (repositories = before.repositories /\ status # "aborted")

\* The places of a DROP's names that are absent when their turn comes: not in
\* the rows the statement found, or removed by an earlier name of the statement.
AbsentTurns(rows, nms) ==
    {k \in DOMAIN nms :
        nms[k] \notin (Keys(rows) \ {nms[j] : j \in 1..(k - 1)})}

RowsWithout(rows, nms) ==
    LET keep == {i \in DOMAIN rows : rows[i].key \notin {nms[k] : k \in DOMAIN nms}}
        F[i \in 0..Len(rows)] ==
            IF i = 0 THEN <<>>
            ELSE IF i \in keep THEN Append(F[i - 1], rows[i]) ELSE F[i - 1]
    IN  F[Len(rows)]

(* C3: a DROP raises an error (the KeyError of del) if and only if           *)
(* missing_ok is false and one of its names is absent when its turn comes; *)
(* when it raises none, the entries of its names are removed and every     *)
(* other entry is kept, in order.                                          *)
C3_DropErrorsIffAbsentAndNotMissingOk ==
    (/\ Ran
     /\ IsDrop(Last)
     /\ from_object_type(Last.removeType) \in RepositoryKinds
     /\ names(Last).raised = NoError)
    => LET kind == from_object_type(Last.removeType)
           nms == names(Last).value
           absent == AbsentTurns(RowsBefore(kind), nms)
       IN  /\ status = "aborted" <=> (~Last.missing_ok /\ absent # {})
           /\ status = "aborted" => error = "KeyError"
           /\ status # "aborted" =>
                /\ repositories[kind] = RowsWithout(RowsBefore(kind), nms)
                /\ \A other \in RepositoryKinds \ {kind} :
                        repositories[other] = before.repositories[other]

\* C3's case: a DROP IF EXISTS of a present and an absent name went through,
\* and the present entry is gone.
C3_Witness ==
    /\ Ran
    /\ IsDrop(Last)
    /\ Last.missing_ok
    /\ Len(Last.objects) = 2
    /\ Contains(RowsBefore("TABLE"), <<"s", "t">>)
    /\ AbsentTurns(RowsBefore("TABLE"), names(Last).value) # {}
    /\ status = "running"
    /\ repositories["TABLE"] = <<>>

IsUnsupportedStatement(statement) ==
    statement.type \notin
        (CreateStatementTypes
         \cup {"AlterTableStmt", "DropStmt", "DeleteStmt", "UpdateStmt"})

HasUnrecognized(statement) ==
    IsAlter(statement)
    /\ \E i \in DOMAIN statement.cmds : IsUnrecognized(statement.cmds[i])

\* What the report holds for a statement: the statement itself, or the ALTER
\* cut down to its unrecognized sub-commands.
Residual(statement) ==
    IF IsAlter(statement)
    THEN [statement EXCEPT !.cmds = SelectSeq(statement.cmds, IsUnrecognized)]
    ELSE statement

\* The report a statement sequence calls for, read off the sequence alone.
ExpectedSkipped(stmts) ==
    LET F[i \in 0..Len(stmts)] ==
            IF i = 0 THEN <<>>
            ELSE IF IsUnsupportedStatement(stmts[i]) \/ HasUnrecognized(stmts[i])
            THEN Append(F[i - 1], Residual(stmts[i]))
            ELSE F[i - 1]
    IN  F[Len(stmts)]

(* C5: no run ends on an UnsupportedStatementError; a statement of an      *)
(* unsupported kind never ends the run; while no structural error has been *)
(* raised, the captured list is the unsupported statements and the         *)
(* residual ALTER statements of the statements executed, in their order,   *)
(* and a run a structural error ended holds that list for the statements   *)
(* before the failing one.                                                 *)
C5_UnsupportedIsCapturedNeverFatal ==
    /\ error # "UnsupportedStatementError"
    /\ (Ran /\ IsUnsupportedStatement(Last)) => status # "aborted"
    /\ status # "aborted" => skipped = ExpectedSkipped(executed)
    /\ status = "aborted" =>
            skipped = ExpectedSkipped(SubSeq(executed, 1, Len(executed) - 1))

\* C5's case: a finished run of three statements that captured an unsupported
\* statement and then the residual of an ALTER that also added a column.
C5_Witness ==
    /\ status = "finished"
    /\ Len(executed) = 3
    /\ Len(skipped) = 2
    /\ skipped[1] = OtherStmt("InsertStmt")
    /\ IsAlter(executed[3])
    /\ Len(executed[3].cmds) = 2
    /\ skipped[2].cmds = <<Unrecognized1>>

(* C10: an ALTER whose name is not in the repository of its kind raises a   *)
(* fatal error (the KeyError of the lookup), leaves every repository as it *)
(* was and adds nothing to the captured list, whatever its sub-commands.   *)
C10_AlterOfAbsentNameIsFatal ==
    (/\ Ran
     /\ IsAlter(Last)
     /\ from_object_type(Last.objtype) \in RepositoryKinds
     /\ ~Contains(RowsBefore(from_object_type(Last.objtype)), name(Last)))
    => /\ status = "aborted"
       /\ error = "KeyError"
       /\ repositories = before.repositories
       /\ skipped = before.skipped

\* C10's case: an ALTER of an absent table with only unrecognized sub-commands
\* ended the run.
C10_Witness ==
    /\ Ran
    /\ IsAlter(Last)
    /\ \A i \in DOMAIN Last.cmds : IsUnrecognized(Last.cmds[i])
    /\ ~Contains(RowsBefore("TABLE"), name(Last))
    /\ status = "aborted"
    /\ error = "KeyError"

-----------------------------------------------------------------------------
(* ALTER TABLE on the columns of a table                                   *)

EmptyRepositories == [kind \in RepositoryKinds |-> <<>>]

\* main after its first statement, the CREATE first.
AfterCreate(first) ==
    /\ repositories = execute(EmptyRepositories, first).repositories
    /\ skipped = <<>>
    /\ executed = <<first>>
    /\ before = [repositories |-> EmptyRepositories, skipped |-> <<>>]
    /\ status = "running"
    /\ error = NoError
    /\ files = <<>>
    /\ output = NothingWritten

NotNull == Constraint(NoneStr, "CONSTR_NOTNULL")
ColANotNull == ColumnDef("a", Tuple(<<NotNull>>))
CheckK == Constraint("k", "CONSTR_CHECK")

DropColumnCmd(colname, missing_ok) ==
    AlterTableCmd("AT_DropColumn", colname, NoneStr, missing_ok)

ColumnTables ==
    {CreateStmt(RangeVar("s", "t"), elts, FALSE) :
        elts \in {None, Tuple(<<ColA>>), Tuple(<<ColA, CheckK, ColB>>),
                  Tuple(<<ColA, ColB, ColANotNull>>)}}

ColumnCmds ==
    {AddColumn(ColA), AddColumn(ColC), DropColumnCmd("a", FALSE),
     Unrecognized1, Unrecognized2}

ColumnCmdLists ==
    {<<c>> : c \in ColumnCmds}
    \cup {<<c, d>> : c \in ColumnCmds, d \in ColumnCmds}
    \cup {<<Unrecognized1, AddColumn(ColC), Unrecognized2>>,
          <<AddColumn(ColC), Unrecognized2, AddColumn(ColA)>>}

ColumnAlters ==
    {AlterTableStmt(RangeVar("s", "t"), "OBJECT_TABLE", cmds) :
        cmds \in ColumnCmdLists}

MaxColumnAlters == 2

InitColumns == \E first \in ColumnTables : AfterCreate(first)

NextColumns ==
    \/ \E raw \in ColumnAlters :
            Len(executed) < 1 + MaxColumnAlters /\ MainLoopStep(raw)
    \/ MainLoopEnd

SpecColumns == InitColumns /\ [][NextColumns]_vars

\* The last statement is an ALTER of a table it found in the TABLE repository.
AlteredExistingTable ==
    /\ Ran
    /\ IsAlter(Last)
    /\ from_object_type(Last.objtype) = "TABLE"
    /\ Contains(RowsBefore("TABLE"), name(Last))

\* The children of the altered table before and after the last statement.
ChildrenBefore == or_tuple(children(GetItem(RowsBefore("TABLE"), name(Last))))

ChildrenAfter == or_tuple(children(GetItem(repositories["TABLE"], name(Last))))

(* C4: after an ALTER of an existing table that raised no structural error, *)
(* the repositories are what the ALTER cut down to its recognized          *)
(* sub-commands makes of them, and the captured list has grown by exactly  *)
(* one statement, the ALTER cut down to its unrecognized sub-commands in   *)
(* their order, or by nothing when it has none.                            *)
C4_RecognizedAppliedUnrecognizedCaptured ==
    (AlteredExistingTable /\ status # "aborted")
    => LET recognized == SelectSeq(Last.cmds, IsRecognized)
           unrecognized == SelectSeq(Last.cmds, IsUnrecognized)
       IN  /\ repositories =
                execute(before.repositories,
                        [Last EXCEPT !.cmds = recognized]).repositories
           /\ skipped = IF unrecognized = <<>> THEN before.skipped
                        ELSE Append(before.skipped,
                                    [Last EXCEPT !.cmds = unrecognized])

\* C4's case: an ALTER with an AddColumn between two unrecognized sub-commands
\* added the column and left the two of them, in order, in the report.
C4_Witness ==
    /\ AlteredExistingTable
    /\ Last.cmds = <<Unrecognized1, AddColumn(ColC), Unrecognized2>>
    /\ status = "running"
    /\ ChildrenAfter = ChildrenBefore \o <<ColC>>
    /\ skipped[Len(skipped)].cmds = <<Unrecognized1, Unrecognized2>>

OnlyAddColumns(statement) ==
    /\ IsAlter(statement)
    /\ \A i \in DOMAIN statement.cmds : statement.cmds[i].subtype = "AT_AddColumn"

\* The column definitions the AddColumn commands of stmts[2], stmts[3], ... add.
AddedColumns(stmts) ==
    LET Defs(statement) == [i \in DOMAIN statement.cmds |-> statement.cmds[i].def_]
        F[i \in 1..Len(stmts)] ==
            IF i = 1 THEN <<>> ELSE F[i - 1] \o Defs(stmts[i])
    IN  F[Len(stmts)]

(* C6: after a CREATE TABLE followed only by ALTER statements of that table *)
(* made of AddColumn commands, the columns of the stored table are the     *)
(* columns of the CREATE followed by the added columns in the order of the *)
(* commands.                                                               *)
C6_AddColumnsAppendInOrder ==
    (/\ Ran
     /\ executed[1].type = "CreateStmt"
     /\ \A i \in 2..Len(executed) :
            /\ OnlyAddColumns(executed[i])
            /\ executed[i].objtype = "OBJECT_TABLE"
            /\ name(executed[i]) = name(executed[1]))
    => /\ status # "aborted"
       /\ columns(GetItem(repositories["TABLE"], name(executed[1])))
            = columns(executed[1]) \o AddedColumns(executed)

\* C6's case: three columns added by two ALTER statements.
C6_Witness ==
    /\ Len(executed) = 3
    /\ executed[1].type = "CreateStmt"
    /\ Len(columns(executed[1])) = 2
    /\ OnlyAddColumns(executed[2])
    /\ OnlyAddColumns(executed[3])
    /\ Len(AddedColumns(executed)) = 3
    /\ Len(columns(GetItem(repositories["TABLE"], name(executed[1])))) = 5

IsColumnNamed(child, colname) == IsColumnDef(child) /\ child.colname = colname

HasColumn(items, colname) ==
    \E i \in DOMAIN items : IsColumnNamed(items[i], colname)

\* items without its first column called colname.
WithoutFirstColumn(items, colname) ==
    LET k == CHOOSE i \in DOMAIN items :
                /\ IsColumnNamed(items[i], colname)
                /\ \A j \in 1..(i - 1) : ~IsColumnNamed(items[j], colname)
    IN  [i \in 1..(Len(items) - 1) |-> IF i < k THEN items[i] ELSE items[i + 1]]

IsDropColumnOf(command, colname) ==
    command.subtype = "AT_DropColumn" /\ command.name = colname

IsAddColumnOf(command, colname) ==
    command.subtype = "AT_AddColumn" /\ command.def_.colname = colname

(* C7: a DropColumn of a column the table has removes the first column     *)
(* child of that name and keeps every other child in its place order; an   *)
(* AddColumn of the same name that follows it, in the same ALTER or in the *)
(* next one, puts the column at the end of the children.                   *)
C7_DropColumnThenAddColumn ==
    /\ (/\ AlteredExistingTable
        /\ Len(Last.cmds) = 1
        /\ \E x \in {"a", "b", "c"} :
              IsDropColumnOf(Last.cmds[1], x) /\ HasColumn(ChildrenBefore, x))
       => /\ status # "aborted"
          /\ ChildrenAfter = WithoutFirstColumn(ChildrenBefore, Last.cmds[1].name)
    /\ (/\ AlteredExistingTable
        /\ Len(Last.cmds) = 2
        /\ \E x \in {"a", "b", "c"} :
              /\ IsDropColumnOf(Last.cmds[1], x)
              /\ IsAddColumnOf(Last.cmds[2], x)
              /\ HasColumn(ChildrenBefore, x))
       => /\ status # "aborted"
          /\ ChildrenAfter =
                WithoutFirstColumn(ChildrenBefore, Last.cmds[1].name)
                \o <<Last.cmds[2].def_>>
    /\ (/\ AlteredExistingTable
        /\ Len(executed) > 2
        /\ IsAlter(executed[Len(executed) - 1])
        /\ Len(executed[Len(executed) - 1].cmds) = 1
        /\ Len(Last.cmds) = 1
        /\ \E x \in {"a", "b", "c"} :
              /\ IsDropColumnOf(executed[Len(executed) - 1].cmds[1], x)
              /\ IsAddColumnOf(Last.cmds[1], x))
       => /\ status # "aborted"
          /\ ChildrenAfter = ChildrenBefore \o <<Last.cmds[1].def_>>

\* C7's case: DROP COLUMN a, ADD COLUMN a on the table (a, CHECK k, b) left
\* (CHECK k, b, a).
C7_Witness ==
    /\ AlteredExistingTable
    /\ Last.cmds = <<DropColumnCmd("a", FALSE), AddColumn(ColA)>>
    /\ ChildrenBefore = <<ColA, CheckK, ColB>>
    /\ ChildrenAfter = <<CheckK, ColB, ColA>>
    /\ status = "running"

-----------------------------------------------------------------------------
(* ALTER TABLE on the constraints of a table                               *)

PKey == Constraint(NoneStr, "CONSTR_PRIMARY")
PKeyNamed == Constraint("pk", "CONSTR_PRIMARY")
UniqueNamed == Constraint("t_a_pkey", "CONSTR_UNIQUE")
ColAPKey == ColumnDef("a", Tuple(<<PKey>>))
ColAKeys == ColumnDef("a", Tuple(<<NotNull, PKeyNamed, PKey>>))

DropConstraintCmd(target, missing_ok) ==
    AlterTableCmd("AT_DropConstraint", target, NoneStr, missing_ok)

DropNotNullCmd(colname, missing_ok) ==
    AlterTableCmd("AT_DropNotNull", colname, NoneStr, missing_ok)

SetNotNullCmd(colname) == AlterTableCmd("AT_SetNotNull", colname, NoneStr, FALSE)

ColumnDefaultCmd(colname, expr) ==
    AlterTableCmd("AT_ColumnDefault", colname, expr, FALSE)

\* CREATE TABLE s.t of: nothing; (b, a NOT NULL CONSTRAINT pk PRIMARY KEY
\* PRIMARY KEY, a PRIMARY KEY); (a PRIMARY KEY, CONSTRAINT t_a_pkey UNIQUE);
\* (a, b); (a NOT NULL, PRIMARY KEY).
ConstraintTables ==
    {CreateStmt(RangeVar("s", "t"), elts, FALSE) :
        elts \in {None,
                  Tuple(<<ColB, ColAKeys, ColAPKey>>),
                  Tuple(<<ColAPKey, UniqueNamed>>),
                  Tuple(<<ColA, ColB>>),
                  Tuple(<<ColANotNull, PKey>>)}}

ConstraintCmds ==
    {DropConstraintCmd("t_a_pkey", missing_ok) : missing_ok \in BOOLEAN}
    \cup {DropConstraintCmd("t_a_None", FALSE)}
    \cup {DropColumnCmd("c", missing_ok) : missing_ok \in BOOLEAN}
    \cup {DropColumnCmd("a", TRUE)}
    \cup {DropNotNullCmd("a", missing_ok) : missing_ok \in BOOLEAN}
    \cup {SetNotNullCmd("a"), ColumnDefaultCmd("a", "0")}

ConstraintAlters ==
    {AlterTableStmt(RangeVar("s", "t"), "OBJECT_TABLE", cmds) :
        cmds \in {<<c>> : c \in ConstraintCmds}
                 \cup {<<c, d>> : c \in ConstraintCmds, d \in ConstraintCmds}}

MaxConstraintAlters == 1

InitConstraints == \E first \in ConstraintTables : AfterCreate(first)

NextConstraints ==
    \/ \E raw \in ConstraintAlters :
            Len(executed) < 1 + MaxConstraintAlters /\ MainLoopStep(raw)
    \/ MainLoopEnd

SpecConstraints == InitConstraints /\ [][NextConstraints]_vars

\* seq without its k-th element.
WithoutAt(seq, k) ==
    [i \in 1..(Len(seq) - 1) |-> IF i < k THEN seq[i] ELSE seq[i + 1]]

Least(indices) == CHOOSE i \in indices : \A j \in indices : i <= j

\* The places of the top-level constraints of items explicitly named target.
TopLevelMatches(items, target) ==
    {i \in DOMAIN items : IsConstraint(items[i]) /\ items[i].conname = target}

\* The places in column.constraints of the inline constraints whose derived
\* name in relation relname is target.
InlineMatches(relname, column, target) ==
    {j \in DOMAIN or_tuple(column.constraints) :
        constraint_name(relname, column.colname,
                        or_tuple(column.constraints)[j].contype) = target}

\* The places of the columns of items that have such an inline constraint.
ColumnMatches(relname, items, target) ==
    {i \in DOMAIN items :
        IsColumnDef(items[i]) /\ InlineMatches(relname, items[i], target) # {}}

\* The last statement is an ALTER of an existing table with the one
\* sub-command of this subtype.
LoneCommand(subtype) ==
    /\ AlteredExistingTable
    /\ Len(Last.cmds) = 1
    /\ Last.cmds[1].subtype = subtype

(* C8: a lone DropConstraint(target) on a table with a top-level constraint *)
(* explicitly named target removes the first such child and nothing else;  *)
(* with none, but with a column that has an inline constraint whose        *)
(* derived name is target, the first such column loses its first such      *)
(* constraint and nothing else changes.                                    *)
C8_DropConstraintRemovesOneMatch ==
    LoneCommand("AT_DropConstraint")
    => LET target == Last.cmds[1].name
           relname == Last.relation.relname
           top == TopLevelMatches(ChildrenBefore, target)
           cols == ColumnMatches(relname, ChildrenBefore, target)
           col == ChildrenBefore[Least(cols)]
       IN  /\ top # {} =>
                /\ status # "aborted"
                /\ ChildrenAfter = WithoutAt(ChildrenBefore, Least(top))
           /\ (top = {} /\ cols # {}) =>
                /\ status # "aborted"
                /\ ChildrenAfter =
                    [ChildrenBefore EXCEPT ![Least(cols)].constraints =
                        Tuple(WithoutAt(col.constraints.items,
                                Least(InlineMatches(relname, col, target))))]

\* C8's case: DROP CONSTRAINT t_a_pkey on (b, a NOT NULL CONSTRAINT pk PRIMARY
\* KEY PRIMARY KEY, a PRIMARY KEY), where no constraint is named t_a_pkey, took
\* the first primary key of the first column a.
C8_Witness ==
    /\ LoneCommand("AT_DropConstraint")
    /\ Last.cmds[1].name = "t_a_pkey"
    /\ ChildrenBefore = <<ColB, ColAKeys, ColAPKey>>
    /\ ChildrenAfter = <<ColB, ColumnDef("a", Tuple(<<NotNull, PKey>>)), ColAPKey>>
    /\ status = "running"

\* The children with every column's constraints None read as the empty tuple.
Normalized(items) ==
    [i \in DOMAIN items |->
        IF IsColumnDef(items[i])
        THEN [items[i] EXCEPT !.constraints = Tuple(or_tuple(@))]
        ELSE items[i]]

\* The target of a DropColumn, DropConstraint or DropNotNull is absent from
\* the table: no column of that name; no top-level constraint of that name and
\* no inline constraint of that derived name; the named column exists and has
\* no NOT NULL constraint.
TargetAbsent(command, relname, items) ==
    CASE command.subtype = "AT_DropColumn" -> ~HasColumn(items, command.name)
      [] command.subtype = "AT_DropConstraint" ->
            /\ TopLevelMatches(items, command.name) = {}
            /\ ColumnMatches(relname, items, command.name) = {}
      [] command.subtype = "AT_DropNotNull" ->
            /\ HasColumn(items, command.name)
            /\ \A i \in DOMAIN items :
                (/\ IsColumnNamed(items[i], command.name)
                 /\ \A j \in 1..(i - 1) : ~IsColumnNamed(items[j], command.name))
                => \A k \in DOMAIN or_tuple(items[i].constraints) :
                     or_tuple(items[i].constraints)[k].contype # "CONSTR_NOTNULL"
      [] OTHER -> FALSE

(* C9: a lone DropColumn, DropConstraint or DropNotNull on an existing      *)
(* table whose target is absent leaves the definition as it was and raises *)
(* no error when missing_ok is true, and raises a fatal error when         *)
(* missing_ok is false.                                                    *)
C9_AbsentTargetRespectsMissingOk ==
    (/\ AlteredExistingTable
     /\ Len(Last.cmds) = 1
     /\ TargetAbsent(Last.cmds[1], Last.relation.relname, ChildrenBefore))
    => IF Last.cmds[1].missing_ok
       THEN /\ status # "aborted"
            /\ Normalized(ChildrenAfter) = Normalized(ChildrenBefore)
       ELSE status = "aborted"

-----------------------------------------------------------------------------
(* Statements of every object kind                                         *)

CompositeTypeStmt(typevar, coldeflist) ==
    [type |-> "CompositeTypeStmt", typevar |-> typevar, coldeflist |-> coldeflist]

IndexStmt(relation, idxname, if_not_exists) ==
    [type |-> "IndexStmt", relation |-> relation, idxname |-> idxname,
     if_not_exists |-> if_not_exists]

\* funcname and typeName are kept as the svals of their String parts.
CreateFunctionStmt(funcname, replace, body) ==
    [type |-> "CreateFunctionStmt", funcname |-> funcname, replace |-> replace,
     body |-> body]

CreateEnumStmt(typeName, vals) ==
    [type |-> "CreateEnumStmt", typeName |-> typeName, vals |-> vals]

CreateTrigStmt(relation, trigname, replace) ==
    [type |-> "CreateTrigStmt", relation |-> relation, trigname |-> trigname,
     replace |-> replace]

CreateSchemaStmt(schemaname, if_not_exists) ==
    [type |-> "CreateSchemaStmt", schemaname |-> schemaname,
     if_not_exists |-> if_not_exists]

\* A type named schema.typ in a DROP TYPE: a TypeName node.
TypeName(schemaname, typname) ==
    [shape |-> "TypeName", parts |-> <<schemaname, typname>>]

\* A function named schema.func in a DROP FUNCTION: an ObjectWithArgs node.
ObjectWithArgs(schemaname, funcname) ==
    [shape |-> "ObjectWithArgs", parts |-> <<schemaname, funcname>>]

\* A schema in a DROP SCHEMA: a lone String node.
LoneString(sval) == [shape |-> "String", parts |-> <<sval>>]

MaxKindStmts == 3

\* s.t is a table and a composite type, s.e an enum and a composite type.
KindCreates ==
    {CreateStmt(RangeVar("s", "t"), Tuple(<<ColA>>), FALSE),
     CompositeTypeStmt(RangeVar("s", "t"), Tuple(<<ColA>>)),
     CompositeTypeStmt(RangeVar("s", "e"), Tuple(<<ColB>>)),
     CreateEnumStmt(<<"s", "e">>, <<"x", "y">>),
     CreateFunctionStmt(<<"s", "f">>, FALSE, "1"),
     CreateFunctionStmt(<<"s", "f">>, TRUE, "2"),
     CreateTrigStmt(RangeVar("s", "t"), "g", TRUE),
     CreateSchemaStmt("s", FALSE),
     IndexStmt(RangeVar("s", "t"), "i", FALSE)}

\* ALTER TABLE, ALTER TYPE, ALTER VIEW, ALTER SEQUENCE and ALTER INDEX.
KindAlters ==
    {AlterTableStmt(RangeVar("s", "t"), "OBJECT_TABLE", <<AddColumn(ColC)>>),
     AlterTableStmt(RangeVar("s", "t"), "OBJECT_TYPE", <<AddColumn(ColC)>>),
     AlterTableStmt(RangeVar("s", "t"), "OBJECT_VIEW", <<AddColumn(ColC)>>),
     AlterTableStmt(RangeVar("s", "t"), "OBJECT_SEQUENCE", <<Unrecognized1>>),
     AlterTableStmt(RangeVar("s", "i"), "OBJECT_INDEX", <<AddColumn(ColC)>>)}

KindDrops ==
    {DropStmt("OBJECT_TABLE", <<StringPair("s", "t")>>, FALSE),
     DropStmt("OBJECT_TYPE", <<TypeName("s", "t")>>, TRUE),
     DropStmt("OBJECT_TYPE", <<TypeName("s", "e")>>, FALSE),
     DropStmt("OBJECT_TYPE", <<TypeName("s", "e")>>, TRUE),
     DropStmt("OBJECT_FUNCTION", <<ObjectWithArgs("s", "f")>>, FALSE),
     DropStmt("OBJECT_VIEW", <<StringPair("s", "t")>>, TRUE),
     DropStmt("OBJECT_VIEW", <<StringPair("s", "t")>>, FALSE),
     DropStmt("OBJECT_SCHEMA", <<LoneString("s")>>, FALSE)}

KindOthers ==
    {OtherStmt("UpdateStmt"), OtherStmt("DeleteStmt"), OtherStmt("InsertStmt"),
     OtherStmt("ViewStmt")}

NextKinds ==
    \/ \E raw \in KindCreates : Len(executed) < MaxKindStmts /\ MainLoopStep(raw)
    \/ \E raw \in KindAlters : Len(executed) < MaxKindStmts /\ MainLoopStep(raw)
    \/ \E raw \in KindDrops : Len(executed) < MaxKindStmts /\ MainLoopStep(raw)
    \/ \E raw \in KindOthers : Len(executed) < MaxKindStmts /\ MainLoopStep(raw)
    \/ MainLoopEnd
    \/ Emit

SpecKinds == Init /\ [][NextKinds]_vars

\* The declared kinds that resolve to a bucket, as the claims name them.
KnownObjectTypes ==
    {"OBJECT_FUNCTION", "OBJECT_INDEX", "OBJECT_SCHEMA", "OBJECT_TABLE",
     "OBJECT_TRIGGER", "OBJECT_TYPE"}

\* The last statement is an ALTER or a DROP whose declared kind is none of them.
TargetsUnknownKind ==
    /\ Ran
    /\ \/ IsAlter(Last) /\ Last.objtype \notin KnownObjectTypes
       \/ IsDrop(Last) /\ Last.removeType \notin KnownObjectTypes

(* C11: an ALTER or a DROP whose declared kind is none of function, index,  *)
(* schema, table, trigger, type ends the run with an error (the KeyError   *)
(* of the lookup of the repository), leaves every repository as it was and *)
(* adds nothing to the captured list; so does a DROP with missing_ok true. *)
C11_UnknownKindIsFatal ==
    TargetsUnknownKind
    => /\ status = "aborted"
       /\ error = "KeyError"
       /\ repositories = before.repositories
       /\ skipped = before.skipped

\* C11's case: DROP VIEW IF EXISTS s.t, with a table s.t in the TABLE
\* repository, ended the run and the table is still there.
C11_Witness ==
    /\ TargetsUnknownKind
    /\ IsDrop(Last)
    /\ Last.missing_ok
    /\ Contains(repositories["TABLE"], <<"s", "t">>)
    /\ status = "aborted"

(* C12: an UPDATE or a DELETE leaves every repository and the captured     *)
(* list as it found them and raises no error; a statement that is neither  *)
(* of the CREATE family nor ALTER TABLE, DROP, UPDATE or DELETE leaves      *)
(* every repository as it found it and is captured, as it is, at the end   *)
(* of the captured list.                                                   *)
C12_NonDdlIgnoredOthersUnsupported ==
    /\ (Ran /\ Last.type \in {"UpdateStmt", "DeleteStmt"})
       => /\ repositories = before.repositories
          /\ skipped = before.skipped
          /\ status # "aborted"
    /\ (Ran /\ Last.type \notin
                (CreateStatementTypes
                 \cup {"AlterTableStmt", "DropStmt", "UpdateStmt", "DeleteStmt"}))
       => /\ repositories = before.repositories
          /\ skipped = Append(before.skipped, Last)
          /\ status # "aborted"

\* C12's case: with a definition stored, a DELETE went by unnoticed and the
\* CREATE VIEW after it was captured.
C12_Witness ==
    /\ Len(executed) = 3
    /\ IsCreate(executed[1])
    /\ executed[2] = OtherStmt("DeleteStmt")
    /\ Last = OtherStmt("ViewStmt")
    /\ skipped = <<OtherStmt("ViewStmt")>>
    /\ repositories # EmptyRepositories
    /\ status = "running"

-----------------------------------------------------------------------------
(* main: the migration files and their order                               *)
(* A filename is the sequence of its characters.                           *)

Separator == <<"_", "_">>

\* The place of the first "__" in str, 0 when it has none.
FindSeparator(str) ==
    LET hits == {i \in 1..(Len(str) - 1) : SubSeq(str, i, i + 1) = Separator}
    IN  IF hits = {} THEN 0 ELSE CHOOSE i \in hits : \A j \in hits : i <= j

\* file.split("__")
RECURSIVE split(_)
split(str) ==
    IF FindSeparator(str) = 0 THEN <<str>>
    ELSE <<SubSeq(str, 1, FindSeparator(str) - 1)>>
         \o split(SubSeq(str, FindSeparator(str) + 2, Len(str)))

\* "__".join(file)
RECURSIVE join(_)
join(parts) ==
    IF Len(parts) = 1 THEN parts[1]
    ELSE parts[1] \o Separator \o join(Tail(parts))

Digits == <<"0", "1", "2", "3", "4", "5", "6", "7", "8", "9">>

IsDigit(char) == \E d \in DOMAIN Digits : Digits[d] = char

DigitValue(char) == (CHOOSE d \in DOMAIN Digits : Digits[d] = char) - 1

\* int(str) of a str made of ASCII digits and letters: the number the digits
\* write, ValueError when str is empty or holds another character.
int(str) ==
    LET F[i \in 0..Len(str)] ==
            IF i = 0 THEN 0 ELSE 10 * F[i - 1] + DigitValue(str[i])
    IN  IF str # <<>> /\ \A i \in DOMAIN str : IsDigit(str[i])
        THEN [value |-> F[Len(str)], raised |-> NoError]
        ELSE [value |-> 0, raised |-> "ValueError"]

\* key=lambda x: int(x[0][1:])
SortKey(parts) == int(SubSeq(parts[1], 2, Len(parts[1])))

\* list.sort(key=...) when every key is a number: ascending, and stable.
RECURSIVE StableSort(_)
StableSort(list) ==
    IF list = <<>> THEN <<>>
    ELSE LET least == CHOOSE i \in DOMAIN list :
                        /\ \A j \in DOMAIN list :
                                SortKey(list[i]).value <= SortKey(list[j]).value
                        /\ \A j \in 1..(i - 1) :
                                SortKey(list[j]).value # SortKey(list[i]).value
         IN  <<list[least]>>
             \o StableSort(SubSeq(list, 1, least - 1)
                           \o SubSeq(list, least + 1, Len(list)))

\* Mutant: the files are taken in the order of the listing.
sort_migration_files_Unsorted(filenames) ==
    LET parts == [i \in DOMAIN filenames |-> split(filenames[i])]
    IN  IF \E i \in DOMAIN parts : SortKey(parts[i]).raised # NoError
        THEN [value |-> <<>>, raised |-> "ValueError"]
        ELSE [value |-> [i \in DOMAIN parts |-> join(parts[i])],
              raised |-> NoError]

sort_migration_files(filenames) ==
    LET parts == [i \in DOMAIN filenames |-> split(filenames[i])]
        sorted == StableSort(parts)
    IN  IF \E i \in DOMAIN parts : SortKey(parts[i]).raised # NoError
        THEN [value |-> <<>>, raised |-> "ValueError"]
        ELSE [value |-> [i \in DOMAIN sorted |-> join(sorted[i])],
              raised |-> NoError]

\* parse_sql(f.read()) of the file called filename in the directory.
ParseFile(directory, filename) ==
    directory[CHOOSE i \in DOMAIN directory : directory[i].name = filename]
        .statements

\* The inner loop of main over one directory of os.walk.
ReadDirectory(directory) ==
    LET sorted == sort_migration_files(
                    [i \in DOMAIN directory |-> directory[i].name])
        F[i \in 0..Len(sorted.value)] ==
            IF i = 0 THEN <<>>
            ELSE F[i - 1] \o ParseFile(directory, sorted.value[i])
    IN  [value |-> F[Len(sorted.value)], raised |-> sorted.raised]

\* raw_statements after the loop over os.walk(migration_dir).
raw_statements(walk) ==
    LET F[d \in 0..Len(walk)] ==
            IF d = 0 THEN [value |-> <<>>, raised |-> NoError]
            ELSE IF F[d - 1].raised # NoError THEN F[d - 1]
            ELSE [value |-> F[d - 1].value \o ReadDirectory(walk[d]).value,
                  raised |-> ReadDirectory(walk[d]).raised]
    IN  F[Len(walk)]

\* The files of a migration directory: V1__a, V02__b, V10__c, V3__h__i with a
\* one-letter prefix, 10__d and 02__e without one, Vx__f without a number.
MigrationNames ==
    {<<"V", "1", "_", "_", "a">>,
     <<"V", "0", "2", "_", "_", "b">>,
     <<"V", "1", "0", "_", "_", "c">>,
     <<"V", "3", "_", "_", "h", "_", "_", "i">>,
     <<"1", "0", "_", "_", "d">>,
     <<"0", "2", "_", "_", "e">>,
     <<"V", "x", "_", "_", "f">>}

\* The one file of the sub-directory: V0__z.
SubDirectoryName == <<"V", "0", "_", "_", "z">>

\* What the parser reads in each file; no statement is in two files.
FileStatements(filename) ==
    CASE filename = <<"V", "1", "_", "_", "a">> ->
            <<CreateStmt(RangeVar("s", "t"), Tuple(<<ColA>>), FALSE)>>
      [] filename = <<"V", "0", "2", "_", "_", "b">> ->
            <<AlterTableStmt(RangeVar("s", "t"), "OBJECT_TABLE", <<AddColumn(ColB)>>),
              OtherStmt("UpdateStmt")>>
      [] filename = <<"V", "1", "0", "_", "_", "c">> ->
            <<AlterTableStmt(RangeVar("s", "t"), "OBJECT_TABLE", <<AddColumn(ColC)>>)>>
      [] filename = <<"V", "3", "_", "_", "h", "_", "_", "i">> ->
            <<AlterTableStmt(RangeVar("s", "t"), "OBJECT_TABLE", <<Unrecognized1>>)>>
      [] filename = <<"1", "0", "_", "_", "d">> -> <<OtherStmt("InsertStmt")>>
      [] filename = <<"0", "2", "_", "_", "e">> -> <<OtherStmt("DeleteStmt")>>
      [] filename = <<"V", "x", "_", "_", "f">> -> <<OtherStmt("ViewStmt")>>
      [] filename = SubDirectoryName ->
            <<CreateStmt(RangeVar("s", "u"), Tuple(<<ColA>>), TRUE),
              DropStmt("OBJECT_TABLE", <<StringPair("s", "u")>>, TRUE)>>

MigrationFile(filename) ==
    [name |-> filename, statements |-> FileStatements(filename)]

MaxFiles == 3

\* The listings of the migration directory: its files in any order.
Listings ==
    UNION {{[i \in 1..n |-> MigrationFile(order[i])] :
                order \in {o \in [1..n -> MigrationNames] :
                              \A i, j \in 1..n : i # j => o[i] # o[j]}} :
           n \in 1..MaxFiles}

\* os.walk(migration_dir): the directory, then its sub-directory if it has one.
Walks ==
    {<<listing>> : listing \in Listings}
    \cup {<<listing, <<MigrationFile(SubDirectoryName)>>>> : listing \in Listings}

InitFiles ==
    /\ files \in Walks
    /\ repositories = EmptyRepositories
    /\ skipped = <<>>
    /\ executed = <<>>
    /\ before = [repositories |-> EmptyRepositories, skipped |-> <<>>]
    /\ status = "reading"
    /\ error = NoError
    /\ output = NothingWritten

\* The loop over os.walk: a filename without a number ends the program.
ReadFiles ==
    \E read \in {raw_statements(files)} :
        /\ status = "reading"
        /\ status' = IF read.raised = NoError THEN "running" ELSE "aborted"
        /\ error' = read.raised
        /\ UNCHANGED <<repositories, skipped, executed, before, files, output>>

\* One turn of the loop over raw_statements.
MainLoopNext ==
    \E read \in {raw_statements(files)} :
        /\ status = "running"
        /\ Len(executed) < Len(read.value)
        /\ MainLoopStep(read.value[Len(executed) + 1])

\* raw_statements is exhausted.
MainLoopExhausted ==
    \E read \in {raw_statements(files)} :
        /\ status = "running"
        /\ Len(executed) = Len(read.value)
        /\ MainLoopEnd

NextFiles == ReadFiles \/ MainLoopNext \/ MainLoopExhausted \/ Emit

SpecFiles == InitFiles /\ [][NextFiles]_vars

WasExecuted(statement) == \E p \in DOMAIN executed : executed[p] = statement

\* The place of a statement in the run; no statement is in two files.
PlaceOf(statement) == CHOOSE p \in DOMAIN executed : executed[p] = statement

\* Any statement of second that was executed came after every statement of
\* first.
ExecutedBefore(first, second) ==
    \A j \in DOMAIN second.statements :
        WasExecuted(second.statements[j])
        => \A i \in DOMAIN first.statements :
                /\ WasExecuted(first.statements[i])
                /\ PlaceOf(first.statements[i]) < PlaceOf(second.statements[j])

\* The statements of a file that were executed are in the order of the file.
KeepsItsOrder(file) ==
    \A i, j \in DOMAIN file.statements :
        (i < j /\ WasExecuted(file.statements[j]))
        => /\ WasExecuted(file.statements[i])
           /\ PlaceOf(file.statements[i]) < PlaceOf(file.statements[j])

\* What precedes the first separator of a filename.
BeforeSeparator(filename) ==
    IF FindSeparator(filename) = 0 THEN filename
    ELSE SubSeq(filename, 1, FindSeparator(filename) - 1)

\* The numeric token that precedes the first separator: the digits that end
\* there.
NumericToken(filename) ==
    LET head == BeforeSeparator(filename)
        starts == {k \in 1..(Len(head) + 1) :
                    \A i \in k..Len(head) : IsDigit(head[i])}
    IN  SubSeq(head, CHOOSE k \in starts : \A l \in starts : k <= l, Len(head))

\* What lies between the first character of a filename and its first
\* separator.
TokenAfterPrefix(filename) ==
    SubSeq(BeforeSeparator(filename), 2, Len(BeforeSeparator(filename)))

(* C13, as claimed: of two files of a directory whose numeric tokens, the   *)
(* digits before the first "__", have different values, the statements of  *)
(* the one with the smaller value are all executed before any statement of *)
(* the other, and the statements of a file are executed in its order.      *)
C13_FilesInOrderOfNumericToken ==
    \A d \in DOMAIN files :
        \A f, g \in DOMAIN files[d] :
            /\ KeepsItsOrder(files[d][f])
            /\ (/\ NumericToken(files[d][f].name) # <<>>
                /\ NumericToken(files[d][g].name) # <<>>
                /\ int(NumericToken(files[d][f].name)).value
                     < int(NumericToken(files[d][g].name)).value)
               => ExecutedBefore(files[d][f], files[d][g])

(* C13, amended: the number of a file is the integer written between the   *)
(* first character of its name and the first "__"; of two files of a       *)
(* directory whose numbers differ, the statements of the one with the      *)
(* smaller number are all executed before any statement of the other, and  *)
(* the statements of a file are executed in its order.                     *)
C13_FilesInOrderOfTokenAfterPrefix ==
    \A d \in DOMAIN files :
        \A f, g \in DOMAIN files[d] :
            /\ KeepsItsOrder(files[d][f])
            /\ (/\ int(TokenAfterPrefix(files[d][f].name)).raised = NoError
                /\ int(TokenAfterPrefix(files[d][g].name)).raised = NoError
                /\ int(TokenAfterPrefix(files[d][f].name)).value
                     < int(TokenAfterPrefix(files[d][g].name)).value)
               => ExecutedBefore(files[d][f], files[d][g])

\* C13's case: the directory lists V10__c, V02__b, V1__a; the run executed the
\* four statements in the order of the numbers 1, 2, 10 and the table has its
\* columns a, b, c.
C13_Witness ==
    /\ Len(files) = 1
    /\ [i \in DOMAIN files[1] |-> files[1][i].name]
         = << <<"V", "1", "0", "_", "_", "c">>,
              <<"V", "0", "2", "_", "_", "b">>,
              <<"V", "1", "_", "_", "a">> >>
    /\ status = "finished"
    /\ Len(executed) = 4
    /\ executed[1].type = "CreateStmt"
    /\ executed[3] = OtherStmt("UpdateStmt")
    /\ columns(GetItem(repositories["TABLE"], <<"s", "t">>)) = <<ColA, ColB, ColC>>

-----------------------------------------------------------------------------
(* The emitted output                                                      *)

\* How often the output holds the definition among those of the kind.
TimesEmitted(kind, definition) ==
    IF kind \in DOMAIN output.final_schema
    THEN Cardinality({i \in DOMAIN output.final_schema[kind] :
                        output.final_schema[kind][i] = definition})
    ELSE 0

(* C14: when the run has completed and written its output with the default *)
(* filter, every definition in the repository of every kind, Enum,         *)
(* Function, Index, Schema, Table, Trigger and Type, is in the output of   *)
(* that kind exactly once, and the output holds no other definition.       *)
C14_EverySurvivingDefinitionEmitted ==
    status = "emitted"
    => /\ \A kind \in RepositoryKinds :
            \A i \in DOMAIN repositories[kind] :
                TimesEmitted(kind, repositories[kind][i].value) = 1
       /\ \A kind \in DOMAIN output.final_schema :
            \A i \in DOMAIN output.final_schema[kind] :
                \E j \in DOMAIN repositories[kind] :
                    repositories[kind][j].value = output.final_schema[kind][i]

-----------------------------------------------------------------------------
(* Repository.create on absent and on existing names                       *)

\* How many entries of rows have this key.
EntriesOf(rows, key) == Cardinality({i \in DOMAIN rows : rows[i].key = key})

(* C15: a CREATE of a name its repository lacks stores the definition under *)
(* that name, after the entries it found, whatever its conflict behavior;  *)
(* a CREATE whose conflict behavior is Replace, of a name its repository   *)
(* has, leaves the new definition as the one entry of that name, in the    *)
(* place of the old one, and raises no error.                              *)
C15_CreateInsertsAbsentReplaceOverwrites ==
    /\ (/\ Ran
        /\ IsCreate(Last)
        /\ ~Contains(RowsBefore(CreateKind(Last)), name(Last)))
       => /\ status # "aborted"
          /\ repositories[CreateKind(Last)]
               = Append(RowsBefore(CreateKind(Last)),
                        [key |-> name(Last), value |-> Last])
    /\ (/\ Ran
        /\ IsCreate(Last)
        /\ conflict_behavior(Last) = REPLACE
        /\ Contains(RowsBefore(CreateKind(Last)), name(Last)))
       => /\ status # "aborted"
          /\ GetItem(repositories[CreateKind(Last)], name(Last)) = Last
          /\ EntriesOf(repositories[CreateKind(Last)], name(Last)) = 1
          /\ Keys(repositories[CreateKind(Last)])
               = Keys(RowsBefore(CreateKind(Last)))

\* C15's case: CREATE FUNCTION s.f with body 1, then CREATE OR REPLACE FUNCTION
\* s.f with body 2; the repository holds the second and nothing else.
C15_Witness ==
    /\ Ran
    /\ Last = CreateFunctionStmt(<<"s", "f">>, TRUE, "2")
    /\ Contains(RowsBefore("FUNCTION"), <<"s", "f">>)
    /\ GetItem(RowsBefore("FUNCTION"), <<"s", "f">>)
         = CreateFunctionStmt(<<"s", "f">>, FALSE, "1")
    /\ repositories["FUNCTION"] = <<[key |-> <<"s", "f">>, value |-> Last]>>
    /\ status = "running"

-----------------------------------------------------------------------------
(* Inline constraints outside the naming convention                        *)

\* The constraint kinds of the naming convention.
ConventionTypes ==
    {"CONSTR_PRIMARY", "CONSTR_UNIQUE", "CONSTR_EXCLUSION", "CONSTR_IDENTITY",
     "CONSTR_FOREIGN", "CONSTR_CHECK"}

IsOutsideConvention(constraint) == constraint.contype \notin ConventionTypes

\* For each column of items, in order, its inline constraints of the kinds
\* outside the convention.
OutsideConvention(items) ==
    LET cols == SelectSeq(items, IsColumnDef)
    IN  [i \in DOMAIN cols |->
            SelectSeq(or_tuple(cols[i].constraints), IsOutsideConvention)]

(* C16: an inline constraint of a kind outside the naming convention (NOT   *)
(* NULL, DEFAULT) has no derived name that a DropConstraint could match:   *)
(* an ALTER made of DropConstraint commands, whatever their targets,       *)
(* leaves every column with the inline constraints of those kinds it had.  *)
C16_OnlyConventionKindsHaveDerivedIdentity ==
    (/\ AlteredExistingTable
     /\ \A i \in DOMAIN Last.cmds : Last.cmds[i].subtype = "AT_DropConstraint")
    => OutsideConvention(ChildrenAfter) = OutsideConvention(ChildrenBefore)

-----------------------------------------------------------------------------
(* One repository per object kind                                          *)

\* The kind whose repository the last statement is for, "UNKNOWN" when it has
\* none.
OwnKind ==
    IF IsCreate(Last) THEN CreateKind(Last)
    ELSE IF IsAlter(Last) THEN from_object_type(Last.objtype)
    ELSE IF IsDrop(Last) THEN from_object_type(Last.removeType)
    ELSE "UNKNOWN"

(* C17: a statement leaves the repository of every kind but its own as it   *)
(* found it, whether it raises an error or not, and a CREATE that raises   *)
(* none has put its name into the repository of its own kind.              *)
C17_OnlyOwnKindRepositoryChanges ==
    Ran
    => /\ \A other \in RepositoryKinds \ {OwnKind} :
            repositories[other] = before.repositories[other]
       /\ (IsCreate(Last) /\ status # "aborted")
          => Contains(repositories[OwnKind], name(Last))

\* C17's case: s.t is a table and a composite type; ALTER TYPE s.t added a
\* column to the type and the table kept its one column.
C17_Witness ==
    /\ Ran
    /\ IsAlter(Last)
    /\ OwnKind = "TYPE"
    /\ status = "running"
    /\ Contains(repositories["TABLE"], <<"s", "t">>)
    /\ Contains(repositories["TYPE"], <<"s", "t">>)
    /\ columns(GetItem(repositories["TABLE"], <<"s", "t">>)) = <<ColA>>
    /\ columns(GetItem(repositories["TYPE"], <<"s", "t">>)) = <<ColA, ColC>>

-----------------------------------------------------------------------------
(* The Enum repository                                                     *)

\* The names of the enum definitions created so far.
CreatedEnums ==
    {name(executed[i]) :
        i \in {j \in DOMAIN executed : executed[j].type = "CreateEnumStmt"}}

\* The names of a DROP, whatever their shape.
DropTargets(statement) ==
    {statement.objects[i].parts : i \in DOMAIN statement.objects}

(* C18: the name of every enum definition created so far is in the Enum     *)
(* repository, whatever statements came after its CREATE; no ALTER and no  *)
(* DROP changes the Enum repository; and a DROP TYPE that raises no error  *)
(* leaves none of its names in the Type repository.                        *)
C18_EnumRepositoryOnlyGrows ==
    /\ \A enum \in CreatedEnums : Contains(repositories["ENUM"], enum)
    /\ (Ran /\ (IsAlter(Last) \/ IsDrop(Last)))
       => repositories["ENUM"] = before.repositories["ENUM"]
    /\ (Ran /\ IsDrop(Last) /\ Last.removeType = "OBJECT_TYPE"
            /\ status # "aborted")
       => \A target \in DropTargets(Last) : ~Contains(repositories["TYPE"], target)

\* C18's case: s.e is an enum and a composite type; DROP TYPE s.e removed the
\* composite type and the enum is still in the Enum repository.
C18_Witness ==
    /\ Ran
    /\ IsDrop(Last)
    /\ Last.removeType = "OBJECT_TYPE"
    /\ <<"s", "e">> \in DropTargets(Last)
    /\ <<"s", "e">> \in CreatedEnums
    /\ Contains(RowsBefore("TYPE"), <<"s", "e">>)
    /\ ~Contains(repositories["TYPE"], <<"s", "e">>)
    /\ Contains(repositories["ENUM"], <<"s", "e">>)
    /\ status = "running"

-----------------------------------------------------------------------------
(* DROP of several names                                                   *)

\* The repositories after main has executed stmts, none of which raises.
RepositoriesAfter(stmts) ==
    LET F[i \in 0..Len(stmts)] ==
            IF i = 0 THEN EmptyRepositories
            ELSE execute(F[i - 1], stmts[i]).repositories
    IN  F[Len(stmts)]

\* main after its first statements, the CREATE statements firsts.
AfterCreates(firsts) ==
    /\ repositories = RepositoriesAfter(firsts)
    /\ skipped = <<>>
    /\ executed = firsts
    /\ before = [repositories |->
                    RepositoriesAfter(SubSeq(firsts, 1, Len(firsts) - 1)),
                 skipped |-> <<>>]
    /\ status = "running"
    /\ error = NoError
    /\ files = <<>>
    /\ output = NothingWritten

CreateTableNamed(relname) ==
    CreateStmt(RangeVar("s", relname), Tuple(<<ColA>>), FALSE)

\* The tables s.t and s.v exist, or s.t alone; s.u never does.
DropTables ==
    {<<CreateTableNamed("t"), CreateTableNamed("v")>>,
     <<CreateTableNamed("v"), CreateTableNamed("t")>>,
     <<CreateTableNamed("t")>>}

\* One, two or three different tables among s.t, s.u and s.v, in any order,
\* and s.t twice.
DropObjectLists ==
    {objects \in UNION {[1..n -> {StringPair("s", "t"), StringPair("s", "u"),
                                  StringPair("s", "v")}] : n \in 1..3} :
        \A i, j \in DOMAIN objects : i # j => objects[i] # objects[j]}
    \cup {<<StringPair("s", "t"), StringPair("s", "t")>>}

TableDrops ==
    {DropStmt("OBJECT_TABLE", objects, missing_ok) :
        objects \in DropObjectLists, missing_ok \in BOOLEAN}

MaxDrops == 2

InitDrops == \E firsts \in DropTables : AfterCreates(firsts)

\* The DROP statements run since the CREATE statements.
DropsRun == Cardinality({i \in DOMAIN executed : IsDrop(executed[i])})

NextDrops ==
    \/ \E raw \in TableDrops : DropsRun < MaxDrops /\ MainLoopStep(raw)
    \/ MainLoopEnd

SpecDrops == InitDrops /\ [][NextDrops]_vars

(* C19: when a DROP raises an error, at the first of its names that is      *)
(* absent at its turn, the repository is the one the DROP found without    *)
(* the names before that one: those are removed, and the entries of the    *)
(* names after it, as of every other name, are still there.                *)
C19_DropIsNotAtomic ==
    (/\ Ran
     /\ IsDrop(Last)
     /\ from_object_type(Last.removeType) \in RepositoryKinds
     /\ names(Last).raised = NoError
     /\ status = "aborted")
    => LET kind == from_object_type(Last.removeType)
           nms == names(Last).value
           k == Least(AbsentTurns(RowsBefore(kind), nms))
       IN  /\ AbsentTurns(RowsBefore(kind), nms) # {}
           /\ repositories[kind]
                = RowsWithout(RowsBefore(kind), SubSeq(nms, 1, k - 1))

\* C19's case: DROP TABLE s.t, s.u, s.v with s.t and s.v stored raised at s.u:
\* s.t is gone and s.v is still there.
C19_Witness ==
    /\ Ran
    /\ IsDrop(Last)
    /\ names(Last).value = << <<"s", "t">>, <<"s", "u">>, <<"s", "v">> >>
    /\ Keys(RowsBefore("TABLE")) = {<<"s", "t">>, <<"s", "v">>}
    /\ status = "aborted"
    /\ error = "KeyError"
    /\ Keys(repositories["TABLE"]) = {<<"s", "v">>}

-----------------------------------------------------------------------------
(* NOT NULL and DEFAULT constraints of a column                            *)

\* How many inline constraints of this kind the column has.
InlineCount(column, contype) ==
    Cardinality({j \in DOMAIN or_tuple(column.constraints) :
                    or_tuple(column.constraints)[j].contype = contype})

\* Every column of items has at most one NOT NULL and at most one DEFAULT.
AtMostOneEach(items) ==
    \A i \in DOMAIN items :
        IsColumnDef(items[i])
        => /\ InlineCount(items[i], "CONSTR_NOTNULL") <= 1
           /\ InlineCount(items[i], "CONSTR_DEFAULT") <= 1

(* C20: if every column of the table had at most one NOT NULL and at most   *)
(* one DEFAULT constraint when it was created, then after any ALTER        *)
(* statements every column of the stored table has at most one of each,    *)
(* and after an ALTER with the one command DropNotNull that raised no      *)
(* error the first column of that name has no NOT NULL constraint.         *)
C20_AtMostOneNotNullAndDefault ==
    (/\ Ran
     /\ executed[1].type = "CreateStmt"
     /\ AtMostOneEach(or_tuple(children(executed[1])))
     /\ Contains(repositories["TABLE"], name(executed[1])))
    => /\ AtMostOneEach(
            or_tuple(children(GetItem(repositories["TABLE"], name(executed[1])))))
       /\ (LoneCommand("AT_DropNotNull") /\ status # "aborted")
          => \A i \in DOMAIN ChildrenAfter :
                (/\ IsColumnNamed(ChildrenAfter[i], Last.cmds[1].name)
                 /\ \A j \in 1..(i - 1) :
                        ~IsColumnNamed(ChildrenAfter[j], Last.cmds[1].name))
                => InlineCount(ChildrenAfter[i], "CONSTR_NOTNULL") = 0

=============================================================================
